---- MODULE Spec2Model ----
(***************************************************************************)
(* Model of the AppStoreConnectTools scripts:                              *)
(*   createPricePointID.py  the identifier encoder and its command line    *)
(*   updatePrice.py         CSV grouping, payload construction, posting    *)
(* Text is modelled as a sequence of Unicode code points, bytes as a       *)
(* sequence of numbers 0..255.                                             *)
(***************************************************************************)
EXTENDS Integers, Sequences, FiniteSets, TLC

(***************************************************************************)
(* Bounds of the model.                                                    *)
(***************************************************************************)
\* total length of the three command-line fields s, t, p
MaxLen == 2
\* length of a string handed to base64url_decode on its own
MaxDataLen == 5
\* number of data rows of the CSV file
MaxRows == 3

(***************************************************************************)
(* Characters.                                                             *)
(***************************************************************************)
SPACE == 32
QUOTE == 34
APOS == 39
BACKSLASH == 92
EQUALS == 61
NEWLINE == 10
HYPHEN == 45

\* the characters the fields of an identifier are drawn from:
\* newline, space, quote, hyphen, '?', 'A', backslash, e-acute (non-ASCII)
Alphabet == {NEWLINE, SPACE, QUOTE, HYPHEN, 63, 65, BACKSLASH, 233}

Strs(n) == UNION {[1..k -> Alphabet] : k \in 0..n}

(***************************************************************************)
(* Generic sequence helpers (Python str / bytes methods).                  *)
(***************************************************************************)
\* ''.join(ss)
RECURSIVE Flatten(_)
Flatten(ss) ==
    IF Len(ss) = 0 THEN <<>>
    ELSE IF Len(ss) = 1 THEN ss[1]
    ELSE LET m == Len(ss) \div 2
         IN Flatten(SubSeq(ss, 1, m)) \o Flatten(SubSeq(ss, m + 1, Len(ss)))

Contains(str, c) == \E i \in 1..Len(str) : str[i] = c

\* str.replace(c, "")
Remove(str, c) == SelectSeq(str, LAMBDA x : x # c)

\* bytes.rstrip(c)
RStrip(str, c) ==
    LET keep == {i \in 1..Len(str) : str[i] # c}
    IN IF keep = {} THEN <<>>
       ELSE SubSeq(str, 1, CHOOSE i \in keep : \A j \in keep : j <= i)

\* c * n
Repeat(c, n) == [i \in 1..n |-> c]

\* Python whitespace as str.strip() sees it (the ASCII part)
IsWhitespace(c) == c \in {9, 10, 11, 12, 13, 28, 29, 30, 31, SPACE}

\* str.strip()
Strip(str) ==
    LET keep == {i \in 1..Len(str) : ~IsWhitespace(str[i])}
    IN IF keep = {} THEN <<>>
       ELSE SubSeq(str, CHOOSE i \in keep : \A j \in keep : i <= j,
                        CHOOSE i \in keep : \A j \in keep : j <= i)

\* str.split(c)[-1]: the text after the last occurrence of c
LastField(str, c) ==
    LET at == {i \in 1..Len(str) : str[i] = c}
    IN IF at = {} THEN str
       ELSE SubSeq(str, (CHOOSE i \in at : \A j \in at : j <= i) + 1, Len(str))

(***************************************************************************)
(* json.dumps with the default ensure_ascii=True and default separators.   *)
(***************************************************************************)
HexDigit(d) == IF d < 10 THEN 48 + d ELSE 87 + d

\* '\\u{0:04x}'.format(n)
UEscape(n) ==
    <<BACKSLASH, 117, HexDigit((n \div 4096) % 16), HexDigit((n \div 256) % 16),
      HexDigit((n \div 16) % 16), HexDigit(n % 16)>>

\* one character of a JSON string literal
JsonEscapeChar(c) ==
    IF c = QUOTE THEN <<BACKSLASH, QUOTE>>
    ELSE IF c = BACKSLASH THEN <<BACKSLASH, BACKSLASH>>
    ELSE IF c = NEWLINE THEN <<BACKSLASH, 110>>
    ELSE IF c = 13 THEN <<BACKSLASH, 114>>
    ELSE IF c = 9 THEN <<BACKSLASH, 116>>
    ELSE IF c = 8 THEN <<BACKSLASH, 98>>
    ELSE IF c = 12 THEN <<BACKSLASH, 102>>
    ELSE IF c < 32 \/ c > 126 THEN
        IF c < 65536 THEN UEscape(c)
        ELSE UEscape(55296 + ((c - 65536) \div 1024))
             \o UEscape(56320 + ((c - 65536) % 1024))
    ELSE <<c>>

\* a JSON string literal
JsonString(str) ==
    <<QUOTE>> \o Flatten([i \in 1..Len(str) |-> JsonEscapeChar(str[i])]) \o <<QUOTE>>

\* json.dumps({"s": s, "t": t, "p": p})
JsonDumps(s, t, p) ==
    <<123>> \o JsonString(<<115>>) \o <<58, SPACE>> \o JsonString(s)
    \o <<44, SPACE>> \o JsonString(<<116>>) \o <<58, SPACE>> \o JsonString(t)
    \o <<44, SPACE>> \o JsonString(<<112>>) \o <<58, SPACE>> \o JsonString(p)
    \o <<125>>

(***************************************************************************)
(* str.encode('utf-8') and bytes.decode('utf-8').                          *)
(***************************************************************************)
Utf8EncodeChar(c) ==
    IF c < 128 THEN <<c>>
    ELSE IF c < 2048 THEN <<192 + (c \div 64), 128 + (c % 64)>>
    ELSE IF c < 65536 THEN
        <<224 + (c \div 4096), 128 + ((c \div 64) % 64), 128 + (c % 64)>>
    ELSE <<240 + (c \div 262144), 128 + ((c \div 4096) % 64),
           128 + ((c \div 64) % 64), 128 + (c % 64)>>

Utf8Encode(str) == Flatten([i \in 1..Len(str) |-> Utf8EncodeChar(str[i])])

IsCont(b) == b >= 128 /\ b < 192

\* the length of the sequence a lead byte opens, 0 for a byte that opens none
Utf8SeqLen(b) ==
    IF b < 128 THEN 1
    ELSE IF b >= 194 /\ b < 224 THEN 2
    ELSE IF b >= 224 /\ b < 240 THEN 3
    ELSE IF b >= 240 /\ b < 245 THEN 4
    ELSE 0

\* the code point of the sequence of n bytes at position i
Utf8CodePoint(bytes, i, n) ==
    IF n = 1 THEN bytes[i]
    ELSE IF n = 2 THEN (bytes[i] - 192) * 64 + (bytes[i + 1] - 128)
    ELSE IF n = 3 THEN (bytes[i] - 224) * 4096 + (bytes[i + 1] - 128) * 64
                       + (bytes[i + 2] - 128)
    ELSE (bytes[i] - 240) * 262144 + (bytes[i + 1] - 128) * 4096
         + (bytes[i + 2] - 128) * 64 + (bytes[i + 3] - 128)

\* bytes.decode('utf-8'): [ok, text]; ok is FALSE on a UnicodeDecodeError.
\* Every byte that is no continuation byte opens a sequence, which must be
\* complete, followed by the next one, and not overlong or a surrogate.
Utf8Decode(bytes) ==
    LET n == Len(bytes)
        starts == SelectSeq([i \in 1..n |-> i], LAMBDA i : ~IsCont(bytes[i]))
        SeqOk(k) ==
            LET i == starts[k]
                len == Utf8SeqLen(bytes[i])
                nxt == IF k < Len(starts) THEN starts[k + 1] ELSE n + 1
            IN /\ len > 0
               /\ nxt = i + len
               /\ LET c == Utf8CodePoint(bytes, i, len)
                  IN /\ len = 3 => c >= 2048 /\ ~(c >= 55296 /\ c < 57344)
                     /\ len = 4 => c >= 65536 /\ c < 1114112
        ok == /\ n > 0 => (starts # <<>> /\ starts[1] = 1)
              /\ \A k \in 1..Len(starts) : SeqOk(k)
    IN [ok |-> ok,
        text |-> IF ok
                 THEN [k \in 1..Len(starts) |->
                          Utf8CodePoint(bytes, starts[k], Utf8SeqLen(bytes[starts[k]]))]
                 ELSE <<>>]

(***************************************************************************)
(* base64 (binascii.b2a_base64 / a2b_base64 as the base64 module calls     *)
(* them).                                                                  *)
(***************************************************************************)
\* the standard alphabet: A-Z a-z 0-9 + /
B64Char(i) ==
    IF i < 26 THEN 65 + i
    ELSE IF i < 52 THEN 71 + i
    ELSE IF i < 62 THEN i - 4
    ELSE IF i = 62 THEN 43
    ELSE 47

\* table_a2b_base64: the value of a character, 64 when it has none
B64Value(c) ==
    IF c >= 65 /\ c <= 90 THEN c - 65
    ELSE IF c >= 97 /\ c <= 122 THEN c - 71
    ELSE IF c >= 48 /\ c <= 57 THEN c + 4
    ELSE IF c = 43 THEN 62
    ELSE IF c = 47 THEN 63
    ELSE 64

\* base64.b64encode
RECURSIVE B64Encode(_)
B64Encode(bytes) ==
    IF bytes = <<>> THEN <<>>
    ELSE IF Len(bytes) = 1 THEN
        <<B64Char(bytes[1] \div 4), B64Char((bytes[1] % 4) * 16), EQUALS, EQUALS>>
    ELSE IF Len(bytes) = 2 THEN
        <<B64Char(bytes[1] \div 4),
          B64Char((bytes[1] % 4) * 16 + (bytes[2] \div 16)),
          B64Char((bytes[2] % 16) * 4), EQUALS>>
    ELSE
        <<B64Char(bytes[1] \div 4),
          B64Char((bytes[1] % 4) * 16 + (bytes[2] \div 16)),
          B64Char((bytes[2] % 16) * 4 + (bytes[3] \div 64)),
          B64Char(bytes[3] % 64)>>
        \o B64Encode(SubSeq(bytes, 4, Len(bytes)))

\* bytes.translate(_urlsafe_encode_translation): '+' -> '-', '/' -> '_'
UrlsafeEncodeTranslate(str) ==
    [i \in 1..Len(str) |->
        IF str[i] = 43 THEN HYPHEN ELSE IF str[i] = 47 THEN 95 ELSE str[i]]

\* bytes.translate(_urlsafe_decode_translation): '-' -> '+', '_' -> '/'
UrlsafeDecodeTranslate(str) ==
    [i \in 1..Len(str) |->
        IF str[i] = HYPHEN THEN 43 ELSE IF str[i] = 95 THEN 47 ELSE str[i]]

\* binascii.a2b_base64 with strict_mode off: [ok, bytes]. The loop over
\* the characters keeps quad_pos (data characters seen, modulo 4) and pads
\* ('=' seen since the last data character, counted while quad_pos >= 2):
\*   a character without a value is skipped;
\*   an '=' with quad_pos >= 2 and quad_pos + pads >= 4 ends the data;
\*   at the end of the input, quad_pos # 0 raises binascii.Error.
A2BBase64(str) ==
    LET n == Len(str)
        IsData(i) == str[i] # EQUALS /\ B64Value(str[i]) < 64
        DataBefore(i) == {j \in 1..(i - 1) : IsData(j)}
        QuadPos(i) == Cardinality(DataBefore(i)) % 4
        PadsBefore(i) ==
            Cardinality({j \in 1..(i - 1) :
                            /\ str[j] = EQUALS
                            /\ \A d \in DataBefore(i) : d < j})
        Ends(i) == /\ str[i] = EQUALS
                   /\ QuadPos(i) >= 2
                   /\ QuadPos(i) + PadsBefore(i) + 1 >= 4
        ends == {i \in 1..n : Ends(i)}
        stop == IF ends = {} THEN n + 1
                ELSE CHOOSE i \in ends : \A j \in ends : i <= j
        vals == SelectSeq(SubSeq(str, 1, stop - 1),
                          LAMBDA c : c # EQUALS /\ B64Value(c) < 64)
        v(k) == B64Value(vals[k])
        m == Len(vals)
        nbytes == 3 * (m \div 4)
                  + (IF m % 4 = 2 THEN 1 ELSE IF m % 4 = 3 THEN 2 ELSE 0)
        Byte(k) == LET g == 4 * ((k - 1) \div 3)
                       r == (k - 1) % 3
                   IN IF r = 0 THEN v(g + 1) * 4 + (v(g + 2) \div 16)
                      ELSE IF r = 1 THEN (v(g + 2) % 16) * 16 + (v(g + 3) \div 4)
                      ELSE (v(g + 3) % 4) * 64 + v(g + 4)
        ok == stop <= n \/ m % 4 = 0
    IN [ok |-> ok, bytes |-> IF ok THEN [k \in 1..nbytes |-> Byte(k)] ELSE <<>>]

\* base64.urlsafe_b64decode of a str: the str must be ASCII (ValueError
\* otherwise), is translated to the standard alphabet and decoded
UrlsafeB64Decode(str) ==
    IF \E i \in 1..Len(str) : str[i] > 127
    THEN [ok |-> FALSE, bytes |-> <<>>]
    ELSE A2BBase64(UrlsafeDecodeTranslate(str))

(***************************************************************************)
(* createPricePointID.py                                                   *)
(***************************************************************************)
\* mutant of base64url_encode: the padding is left on
base64url_encode_padded(data) == UrlsafeEncodeTranslate(B64Encode(data))

\* base64url_encode(data)
base64url_encode(data) ==
    RStrip(UrlsafeEncodeTranslate(B64Encode(data)), EQUALS)

\* base64url_decode(data): [ok, bytes], ok FALSE when an exception is raised
base64url_decode(data) ==
    LET padding == Repeat(EQUALS, (-Len(data)) % 4)
    IN UrlsafeB64Decode(data \o padding)

\* mutant of json_string_of: the spaces of json.dumps are left in
json_string_unstripped(s, t, p) == JsonDumps(s, t, p)

\* the text encode_json_to_base64 encodes: json.dumps, then replace(" ", "")
json_string_of(s, t, p) == Remove(JsonDumps(s, t, p), SPACE)

\* encode_json_to_base64(s, t, p)
encode_json_to_base64(s, t, p) ==
    base64url_encode(Utf8Encode(json_string_of(s, t, p)))

(***************************************************************************)
(* json.loads, for an object whose members are strings.                    *)
(***************************************************************************)
HexVal(c) ==
    IF c >= 48 /\ c <= 57 THEN c - 48
    ELSE IF c >= 97 /\ c <= 102 THEN c - 87
    ELSE IF c >= 65 /\ c <= 70 THEN c - 55
    ELSE 16

IsHex4(txt, i) ==
    i + 3 <= Len(txt) /\ \A k \in i..(i + 3) : HexVal(txt[k]) < 16

Hex4Val(txt, i) ==
    HexVal(txt[i]) * 4096 + HexVal(txt[i + 1]) * 256
    + HexVal(txt[i + 2]) * 16 + HexVal(txt[i + 3])

JsonFail == [ok |-> FALSE, val |-> <<>>, next |-> 0]

\* the character a backslash escape stands for, 0 when there is none
JsonUnescape(c) ==
    IF c = QUOTE THEN QUOTE
    ELSE IF c = BACKSLASH THEN BACKSLASH
    ELSE IF c = 47 THEN 47
    ELSE IF c = 98 THEN 8
    ELSE IF c = 102 THEN 12
    ELSE IF c = 110 THEN NEWLINE
    ELSE IF c = 114 THEN 13
    ELSE IF c = 116 THEN 9
    ELSE 0

\* scan a string literal from position i, just after its opening quote:
\* [ok, val, next], next the position after the closing quote
RECURSIVE JsonScanString(_, _, _)
JsonScanString(txt, i, acc) ==
    IF i > Len(txt) THEN JsonFail
    ELSE IF txt[i] = QUOTE THEN [ok |-> TRUE, val |-> acc, next |-> i + 1]
    ELSE IF txt[i] < 32 THEN JsonFail
    ELSE IF txt[i] # BACKSLASH THEN JsonScanString(txt, i + 1, Append(acc, txt[i]))
    ELSE IF i + 1 > Len(txt) THEN JsonFail
    ELSE IF txt[i + 1] = 117 THEN
        IF ~IsHex4(txt, i + 2) THEN JsonFail
        ELSE LET hi == Hex4Val(txt, i + 2) IN
            IF hi >= 55296 /\ hi <= 56319 /\ i + 7 <= Len(txt)
               /\ txt[i + 6] = BACKSLASH /\ txt[i + 7] = 117
               /\ IsHex4(txt, i + 8)
               /\ Hex4Val(txt, i + 8) >= 56320 /\ Hex4Val(txt, i + 8) <= 57343
            THEN JsonScanString(txt, i + 12,
                    Append(acc, 65536 + (hi - 55296) * 1024
                                + (Hex4Val(txt, i + 8) - 56320)))
            ELSE JsonScanString(txt, i + 6, Append(acc, hi))
    ELSE IF JsonUnescape(txt[i + 1]) = 0 THEN JsonFail
    ELSE JsonScanString(txt, i + 2, Append(acc, JsonUnescape(txt[i + 1])))

IsJsonWs(c) == c \in {SPACE, 9, NEWLINE, 13}

RECURSIVE JsonSkipWs(_, _)
JsonSkipWs(txt, i) ==
    IF i <= Len(txt) /\ IsJsonWs(txt[i]) THEN JsonSkipWs(txt, i + 1) ELSE i

At(txt, i, c) == i <= Len(txt) /\ txt[i] = c

\* the members of an object from position i, where a key's opening quote is
\* expected: [ok, pairs], pairs in the order of the text
RECURSIVE JsonScanMembers(_, _, _)
JsonScanMembers(txt, i, acc) ==
    IF ~At(txt, i, QUOTE) THEN [ok |-> FALSE, pairs |-> <<>>]
    ELSE LET k == JsonScanString(txt, i + 1, <<>>) IN
        IF ~k.ok THEN [ok |-> FALSE, pairs |-> <<>>]
        ELSE LET c == JsonSkipWs(txt, k.next) IN
            IF ~At(txt, c, 58) THEN [ok |-> FALSE, pairs |-> <<>>]
            ELSE LET vs == JsonSkipWs(txt, c + 1) IN
                IF ~At(txt, vs, QUOTE) THEN [ok |-> FALSE, pairs |-> <<>>]
                ELSE LET v == JsonScanString(txt, vs + 1, <<>>) IN
                    IF ~v.ok THEN [ok |-> FALSE, pairs |-> <<>>]
                    ELSE LET e == JsonSkipWs(txt, v.next)
                             got == Append(acc, [key |-> k.val, val |-> v.val])
                         IN IF At(txt, e, 125)
                            THEN [ok |-> JsonSkipWs(txt, e + 1) = Len(txt) + 1,
                                  pairs |-> got]
                            ELSE IF At(txt, e, 44)
                            THEN JsonScanMembers(txt, JsonSkipWs(txt, e + 1), got)
                            ELSE [ok |-> FALSE, pairs |-> <<>>]

\* json.loads(txt) for an object of strings: [ok, pairs]
JsonLoads(txt) ==
    LET b == JsonSkipWs(txt, 1) IN
    IF ~At(txt, b, 123) THEN [ok |-> FALSE, pairs |-> <<>>]
    ELSE LET m == JsonSkipWs(txt, b + 1) IN
        IF At(txt, m, 125)
        THEN [ok |-> JsonSkipWs(txt, m + 1) = Len(txt) + 1, pairs |-> <<>>]
        ELSE JsonScanMembers(txt, m, <<>>)

\* the keys of a parsed object, in the order of the text
JsonKeys(obj) == [i \in 1..Len(obj.pairs) |-> obj.pairs[i].key]

HasKey(obj, key) == \E i \in 1..Len(obj.pairs) : obj.pairs[i].key = key

\* obj[key] of the dict json.loads builds: the last member with that key
JsonGet(obj, key) ==
    LET k == CHOOSE i \in 1..Len(obj.pairs) :
                /\ obj.pairs[i].key = key
                /\ \A j \in (i + 1)..Len(obj.pairs) : obj.pairs[j].key # key
    IN obj.pairs[k].val

\* decode: re-add padding, base64url-decode, UTF-8-decode, parse
\* [ok, s, t, p]; ok is FALSE when any step fails or a key is missing
DecodeId(encoded) ==
    LET raw == base64url_decode(encoded)
        txt == IF raw.ok THEN Utf8Decode(raw.bytes) ELSE [ok |-> FALSE, text |-> <<>>]
        obj == IF txt.ok THEN JsonLoads(txt.text) ELSE [ok |-> FALSE, pairs |-> <<>>]
    IN IF obj.ok /\ HasKey(obj, <<115>>) /\ HasKey(obj, <<116>>) /\ HasKey(obj, <<112>>)
       THEN [ok |-> TRUE, s |-> JsonGet(obj, <<115>>), t |-> JsonGet(obj, <<116>>),
             p |-> JsonGet(obj, <<112>>)]
       ELSE [ok |-> FALSE, s |-> <<>>, t |-> <<>>, p |-> <<>>]

(***************************************************************************)
(* createPricePointID.py: main.                                            *)
(***************************************************************************)
HexByte(b) == <<BACKSLASH, 120, HexDigit(b \div 16), HexDigit(b % 16)>>

\* repr(bytes), which is what an f-string makes of a bytes value
BytesRepr(bytes) ==
    LET q == IF Contains(bytes, APOS) /\ ~Contains(bytes, QUOTE) THEN QUOTE ELSE APOS
        Esc(c) == IF c = q \/ c = BACKSLASH THEN <<BACKSLASH, c>>
                  ELSE IF c = 9 THEN <<BACKSLASH, 116>>
                  ELSE IF c = NEWLINE THEN <<BACKSLASH, 110>>
                  ELSE IF c = 13 THEN <<BACKSLASH, 114>>
                  ELSE IF c < 32 \/ c >= 127 THEN HexByte(c)
                  ELSE <<c>>
    IN <<98, q>> \o Flatten([i \in 1..Len(bytes) |-> Esc(bytes[i])]) \o <<q>>

\* argparse: a value that starts with '-', is longer than one character, is
\* no negative number and holds no space is taken for an option
IsDigit(c) == c >= 48 /\ c <= 57

ArgIsOption(a) ==
    /\ Len(a) >= 2
    /\ a[1] = HYPHEN
    /\ ~(\A i \in 2..Len(a) : IsDigit(a[i]))
    /\ ~Contains(a, SPACE)

\* parser.parse_args() accepts --s S --t T --p P
ParseArgsOk(s, t, p) == ~ArgIsOption(s) /\ ~ArgIsOption(t) /\ ~ArgIsOption(p)

\* mutant of MainStdout: the identifier is printed first
MainStdoutSwapped(decoded, encoded) ==
    encoded \o <<NEWLINE>> \o BytesRepr(decoded) \o <<NEWLINE>>

\* what main writes to standard output: print(f"{decoded}"), print(f"{encoded}")
MainStdout(decoded, encoded) ==
    BytesRepr(decoded) \o <<NEWLINE>> \o encoded \o <<NEWLINE>>

\* one run of createPricePointID.py --s s --t t --p p: [returncode, stdout]
RunCreatePricePointID(s, t, p) ==
    IF ~ParseArgsOk(s, t, p) THEN [returncode |-> 2, stdout |-> <<>>]
    ELSE LET encoded == encode_json_to_base64(s, t, p)
             decoded == base64url_decode(encoded)
         IN IF ~decoded.ok THEN [returncode |-> 1, stdout |-> <<>>]
            ELSE [returncode |-> 0, stdout |-> MainStdout(decoded.bytes, encoded)]

(***************************************************************************)
(* updatePrice.py                                                          *)
(***************************************************************************)
\* ITEM_TYPES of get_item_type_definitions
ITEM_TYPES ==
    [apps |->
        [product_type |-> "app", products_type |-> "apps",
         prices_type |-> "appPrices", price_point_type |-> "appPricePoint",
         price_points_type |-> "appPricePoints",
         schedule_type |-> "appPriceSchedules",
         endpoint |-> "https://api.appstoreconnect.apple.com/v1/appPriceSchedules"],
     inAppPurchases |->
        [product_type |-> "inAppPurchase", products_type |-> "inAppPurchases",
         prices_type |-> "inAppPurchasePrices",
         price_point_type |-> "inAppPurchasePricePoint",
         price_points_type |-> "inAppPurchasePricePoints",
         schedule_type |-> "inAppPurchasePriceSchedules",
         endpoint |->
            "https://api.appstoreconnect.apple.com/v1/inAppPurchasePriceSchedules"]]

\* get_item_type_definitions raises ValueError unless this holds
ValidItemType(item_type) == item_type \in DOMAIN ITEM_TYPES

\* get_price_point_id(app_id, territory, price_point): [ok, id];
\* ok is FALSE when the subprocess fails and sys.exit(1) is called
get_price_point_id(app_id, territory, price_point) ==
    LET result == RunCreatePricePointID(app_id, territory, price_point)
    IN IF result.returncode # 0 THEN [ok |-> FALSE, id |-> <<>>]
       ELSE [ok |-> TRUE, id |-> LastField(Strip(result.stdout), NEWLINE)]

\* mutant of PriceId: the index is left out
PriceIdNoIndex(index) == "${price-" \o "}"

\* "${price-" + str(index) + "}"
PriceId(index) == "${price-" \o ToString(index) \o "}"

\* price.get('startDate') / price.get('endDate') is truthy: not None, not ''
HasDate(d) == d # <<>> /\ d[1] # ""

\* prepare_price_data(price, index, types, app_id), once the price point id
\* is known: <<manual_price_data, included_price_data>>; the attributes are
\* added only when a date is set
PreparePriceData(price, index, types, app_id, price_point_id) ==
    LET price_id == PriceId(index)
        manual == [type |-> types.prices_type, id |-> price_id]
        rel == types.price_point_type :>
                  [data |-> [type |-> types.price_points_type,
                             id |-> price_point_id]]
        start == HasDate(price.startDate)
        end == HasDate(price.endDate)
    IN <<manual,
         IF start /\ end
         THEN [id |-> price_id, type |-> types.prices_type, relationships |-> rel,
               attributes |-> [startDate |-> price.startDate[1],
                               endDate |-> price.endDate[1]]]
         ELSE IF start
         THEN [id |-> price_id, type |-> types.prices_type, relationships |-> rel,
               attributes |-> [startDate |-> price.startDate[1]]]
         ELSE IF end
         THEN [id |-> price_id, type |-> types.prices_type, relationships |-> rel,
               attributes |-> [endDate |-> price.endDate[1]]]
         ELSE [id |-> price_id, type |-> types.prices_type,
               relationships |-> rel]>>

\* the payload of update_price_schedule, price_point_ids being what
\* get_price_point_id returned for each price
BuildPayload(types, app_id, prices, price_point_ids) ==
    LET manual_prices_data ==
            [i \in 1..Len(prices) |->
                PreparePriceData(prices[i], i - 1, types, app_id,
                                 price_point_ids[i])[1]]
        included_data ==
            [i \in 1..Len(prices) |->
                PreparePriceData(prices[i], i - 1, types, app_id,
                                 price_point_ids[i])[2]]
    IN [data |->
          [type |-> types.schedule_type,
           relationships |->
              (types.product_type :>
                  [data |-> [type |-> types.products_type, id |-> app_id]])
              @@ [baseTerritory |->
                      [data |-> [type |-> "territories",
                                 id |-> prices[1].territory]],
                  manualPrices |-> [data |-> manual_prices_data]]],
        included |-> included_data]

\* mutant of Deliver: dry_run is not looked at
DeliverAlways(token, item_type, app_id, payload, dryRun, resp) ==
    LET post == [url |-> ITEM_TYPES[item_type].endpoint,
                 authorization |-> "Bearer " \o token,
                 json |-> payload]
    IN IF resp = "ok"
       THEN [outcome |-> "True", posts |-> <<post>>,
             printed |-> <<<<"Successfully updated price schedule for",
                             item_type, app_id>>>>]
       ELSE [outcome |-> "False", posts |-> <<post>>,
             printed |-> <<<<"Error updating price schedule">>>>]

\* the end of update_price_schedule, from "if dry_run:" on; resp is the
\* response of the server ("ok", or "error" for a RequestException)
Deliver(token, item_type, app_id, payload, dryRun, resp) ==
    IF dryRun
    THEN [outcome |-> "True", posts |-> <<>>,
          printed |-> <<<<"Dry run: Payload for", item_type, app_id>>,
                        <<"json", payload>>>>]
    ELSE LET post == [url |-> ITEM_TYPES[item_type].endpoint,
                      authorization |-> "Bearer " \o token,
                      json |-> payload]
         IN IF resp = "ok"
            THEN [outcome |-> "True", posts |-> <<post>>,
                  printed |-> <<<<"Successfully updated price schedule for",
                                  item_type, app_id>>>>]
            ELSE [outcome |-> "False", posts |-> <<post>>,
                  printed |-> <<<<"Error updating price schedule">>>>]

\* the price main builds from a CSV row; None is <<>>, a value v is <<v>>
PriceOf(row) ==
    [territory |-> row.territory,
     price |-> row.price_point_id,
     startDate |-> IF row.start = "null" THEN <<>> ELSE <<row.start>>,
     endDate |-> IF row.end = "null" THEN <<>> ELSE <<row.end>>]

\* the rows main skips: blank 'input', empty 'id'
RowSkipped(row) == Strip(row.input) = <<>> \/ row.id = <<>>

KeyIndex(groups, key) ==
    IF \E i \in 1..Len(groups) : groups[i].key = key
    THEN CHOOSE i \in 1..Len(groups) : groups[i].key = key
    ELSE 0

\* mutant of AddRow: memo, id and type are set by every row of the group
AddRowOverwriting(groups, row) ==
    IF RowSkipped(row) THEN groups
    ELSE LET k == KeyIndex(groups, row.id)
             had == IF k = 0
                    THEN Append(groups, [key |-> row.id, memo |-> <<>>, id |-> <<>>,
                                         type |-> "", prices |-> <<>>])
                    ELSE groups
             j == IF k = 0 THEN Len(had) ELSE k
             named == [had EXCEPT ![j].memo = row.input, ![j].id = row.id,
                                  ![j].type = row.type]
         IN [named EXCEPT ![j].prices = Append(@, PriceOf(row))]

\* the body of main's loop over the CSV rows, on grouped_items (a dict in
\* insertion order: a sequence of entries, each with its key)
AddRow(groups, row) ==
    IF RowSkipped(row) THEN groups
    ELSE LET k == KeyIndex(groups, row.id)
             \* grouped_items[item_id] of the defaultdict
             had == IF k = 0
                    THEN Append(groups, [key |-> row.id, memo |-> <<>>, id |-> <<>>,
                                         type |-> "", prices |-> <<>>])
                    ELSE groups
             j == IF k = 0 THEN Len(had) ELSE k
             named == IF had[j].id = <<>>
                      THEN [had EXCEPT ![j].memo = row.input, ![j].id = row.id,
                                       ![j].type = row.type]
                      ELSE had
         IN [named EXCEPT ![j].prices = Append(@, PriceOf(row))]

\* mutant of AfterItem: the ValueError is not caught and ends the process
AfterItemUncaught(outcome) ==
    IF outcome \in {"exit", "ValueError"} THEN "exit" ELSE "process"

\* where main goes after update_price_schedule: sys.exit(1) ends the
\* process, a ValueError is caught and the loop goes on
AfterItem(outcome) == IF outcome = "exit" THEN "exit" ELSE "process"

\* what main prints after update_price_schedule
MainPrints(outcome, item) ==
    IF outcome = "False"
    THEN <<<<"Failed to update price schedule for", item.type, item.id>>>>
    ELSE IF outcome = "ValueError" THEN <<<<"Error processing", item.memo>>>>
    ELSE <<>>

\* main skips an item that lacks its id, its type or its prices
ItemIncomplete(item) == item.id = <<>> \/ item.type = "" \/ item.prices = <<>>

\* list(grouped_items.values())
Values(groups) ==
    [i \in 1..Len(groups) |->
        [memo |-> groups[i].memo, id |-> groups[i].id, type |-> groups[i].type,
         prices |-> groups[i].prices]]

(***************************************************************************)
(* The CSV rows of the model.                                              *)
(***************************************************************************)
Row(input, id, type, territory, price_point_id, start, end) ==
    [input |-> input, id |-> id, type |-> type, territory |-> territory,
     price_point_id |-> price_point_id, start |-> start, end |-> end]

\* The rows a CSV file of the model is made of:
\*   memos "M", "N" and " " (blank); ids "A", "B" and "" (empty);
\*   types "apps", "inAppPurchases", "subscriptions" (unknown), "" (empty);
\*   territories "U", "J", e-acute + space, and "-J", which the subprocess
\*   takes for an option; price points "P", quote + newline, backslash
Rows ==
    {Row(<<77>>, <<65>>, "apps", <<85>>, <<80>>, "null", "null"),
     Row(<<78>>, <<65>>, "inAppPurchases", <<233, SPACE>>, <<QUOTE, NEWLINE>>,
         "2025-01-01", "2025-12-31"),
     Row(<<77>>, <<66>>, "inAppPurchases", <<74>>, <<BACKSLASH>>,
         "", "2025-12-31"),
     Row(<<77>>, <<66>>, "subscriptions", <<85>>, <<80>>, "null", "null"),
     Row(<<SPACE>>, <<65>>, "apps", <<85>>, <<80>>, "null", "null"),
     Row(<<77>>, <<>>, "apps", <<85>>, <<80>>, "null", "null"),
     Row(<<77>>, <<65>>, "apps", <<HYPHEN, 74>>, <<80>>, "null", "null"),
     Row(<<78>>, <<65>>, "", <<85>>, <<80>>, "2025-01-01", "null")}

\* the strings base64url_decode is called on directly:
\* over 'Q', '_', '=', '!' and e-acute
DataAlphabet == {81, 95, EQUALS, 33, 233}

DataStrs == UNION {[1..k -> DataAlphabet] : k \in 0..MaxDataLen}

(***************************************************************************)
(* State.                                                                  *)
(***************************************************************************)
VARIABLES
    \* createPricePointID.py
    s, t, p,            \* the values of --s, --t, --p
    enc_pc,             \* "idle", "start", "encoded", "decoded", "exited"
    json_string,        \* json_string of encode_json_to_base64
    encoded,            \* its result
    recovered,          \* what decoding the result gives back
    stdout,             \* standard output of main
    returncode,         \* exit status of main, -1 while it has none
    \* base64url_decode called on its own
    data,               \* the argument
    dec_pc,             \* "idle", "start", "returned", "raised"
    dec_result,         \* the bytes returned
    \* updatePrice.py
    csv,                \* the data rows of the CSV file
    dry_run,            \* --dry-run
    token,              \* --token
    pc,                 \* "idle", "read", "process", "prepare", "done", "exit"
    row_idx,            \* rows read so far
    grouped_items,      \* the dict of groups, in insertion order
    items,              \* list(grouped_items.values())
    item_idx,           \* items the loop has gone through
    cur,                \* the item in progress: price point ids got, prints
    runs,               \* the subprocesses run: [item, args, returncode]
    posts,              \* the HTTP requests made: [item, url, ...]
    results,            \* per item gone through: what happened
    exit_code           \* exit status of the process, -1 while it runs

encVars == <<s, t, p, enc_pc, json_string, encoded, recovered, stdout, returncode>>
decVars == <<data, dec_pc, dec_result>>
updVars == <<csv, dry_run, token, pc, row_idx, grouped_items, items, item_idx,
             cur, runs, posts, results, exit_code>>
vars == <<encVars, decVars, updVars>>

NoItem == [ids |-> <<>>, printed |-> <<>>]

NotRecovered == [ok |-> FALSE, s |-> <<>>, t |-> <<>>, p |-> <<>>]

EncIdle ==
    /\ s = <<>> /\ t = <<>> /\ p = <<>>
    /\ enc_pc = "idle"
    /\ json_string = <<>> /\ encoded = <<>> /\ recovered = NotRecovered
    /\ stdout = <<>> /\ returncode = -1

DecIdle == data = <<>> /\ dec_pc = "idle" /\ dec_result = <<>>

UpdIdle ==
    /\ csv = <<>> /\ dry_run = FALSE /\ token = ""
    /\ pc = "idle" /\ row_idx = 0
    /\ grouped_items = <<>> /\ items = <<>> /\ item_idx = 0
    /\ cur = NoItem /\ runs = <<>> /\ posts = <<>>
    /\ results = <<>> /\ exit_code = -1

(***************************************************************************)
(* createPricePointID.py: the encoder called on a triple, and main.        *)
(***************************************************************************)
InitEncoder ==
    /\ s \in Strs(MaxLen)
    /\ t \in Strs(MaxLen - Len(s))
    /\ p \in Strs(MaxLen - Len(s) - Len(t))
    /\ enc_pc = "start"
    /\ json_string = <<>> /\ encoded = <<>> /\ recovered = NotRecovered
    /\ stdout = <<>> /\ returncode = -1
    /\ DecIdle /\ UpdIdle

\* encoded = encode_json_to_base64(s, t, p)
CallEncode ==
    /\ enc_pc = "start"
    /\ json_string' = json_string_of(s, t, p)
    /\ encoded' = encode_json_to_base64(s, t, p)
    /\ enc_pc' = "encoded"
    /\ UNCHANGED <<s, t, p, recovered, stdout, returncode, decVars, updVars>>

\* base64url_decode(encoded), .decode('utf-8'), json.loads
CallDecode ==
    /\ enc_pc = "encoded"
    /\ recovered' = DecodeId(encoded)
    /\ enc_pc' = "decoded"
    /\ UNCHANGED <<s, t, p, json_string, encoded, stdout, returncode, decVars,
                   updVars>>

\* main(): parse the arguments, encode, decode, print both
Main ==
    /\ enc_pc = "start"
    /\ LET run == RunCreatePricePointID(s, t, p) IN
        /\ stdout' = run.stdout
        /\ returncode' = run.returncode
        /\ encoded' = IF ParseArgsOk(s, t, p)
                      THEN encode_json_to_base64(s, t, p) ELSE encoded
    /\ enc_pc' = "exited"
    /\ UNCHANGED <<s, t, p, json_string, recovered, decVars, updVars>>

NextEncoder == CallEncode \/ CallDecode \/ Main

SpecEncoder == InitEncoder /\ [][NextEncoder]_vars

(***************************************************************************)
(* base64url_decode called on any string.                                  *)
(***************************************************************************)
InitDecoder ==
    /\ data \in DataStrs
    /\ dec_pc = "start"
    /\ dec_result = <<>>
    /\ EncIdle /\ UpdIdle

CallBase64UrlDecode ==
    /\ dec_pc = "start"
    /\ LET r == base64url_decode(data) IN
        /\ dec_pc' = IF r.ok THEN "returned" ELSE "raised"
        /\ dec_result' = r.bytes
    /\ UNCHANGED <<data, encVars, updVars>>

NextDecoder == CallBase64UrlDecode

SpecDecoder == InitDecoder /\ [][NextDecoder]_vars

(***************************************************************************)
(* updatePrice.py: main.                                                   *)
(***************************************************************************)
Csvs == UNION {[1..k -> Rows] : k \in 0..MaxRows}

Init ==
    /\ csv \in Csvs
    /\ dry_run \in BOOLEAN
    /\ token = "TOKEN"
    /\ pc = "read" /\ row_idx = 0
    /\ grouped_items = <<>> /\ items = <<>> /\ item_idx = 0
    /\ cur = NoItem /\ runs = <<>> /\ posts = <<>>
    /\ results = <<>> /\ exit_code = -1
    /\ EncIdle /\ DecIdle

\* one turn of "for row in reader"
ReadRow ==
    /\ pc = "read" /\ row_idx < Len(csv)
    /\ grouped_items' = AddRow(grouped_items, csv[row_idx + 1])
    /\ row_idx' = row_idx + 1
    /\ UNCHANGED <<csv, dry_run, token, pc, items, item_idx, cur, runs, posts,
                   results, exit_code, encVars, decVars>>

\* the reader is exhausted: items = list(grouped_items.values())
EndRead ==
    /\ pc = "read" /\ row_idx = Len(csv)
    /\ items' = Values(grouped_items)
    /\ pc' = "process"
    /\ UNCHANGED <<csv, dry_run, token, row_idx, grouped_items, item_idx, cur,
                   runs, posts, results, exit_code, encVars, decVars>>

\* the record kept of an item the loop is through with
Result(item, called, outcome, payload, printed) ==
    [item |-> item, called |-> called, outcome |-> outcome,
     payload |-> payload, printed |-> printed]

\* "for item in items": an item lacking a field is skipped
SkipItem ==
    /\ pc = "process" /\ item_idx < Len(items)
    /\ LET item == items[item_idx + 1] IN
        /\ ItemIncomplete(item)
        /\ results' = Append(results,
                Result(item, FALSE, "skipped", <<>>,
                       <<<<"Skipping item", item.memo>>>>))
    /\ item_idx' = item_idx + 1
    /\ UNCHANGED <<csv, dry_run, token, pc, row_idx, grouped_items, items, cur,
                   runs, posts, exit_code, encVars, decVars>>

\* "for item in items": update_price_schedule is called and looks the type
\* up; the ValueError of an unknown type is caught by main, which goes on
CallUpdatePriceSchedule ==
    /\ pc = "process" /\ item_idx < Len(items)
    /\ LET item == items[item_idx + 1]
           processing == <<"Processing", item.type, item.id, item.memo,
                           Len(item.prices)>>
       IN
        /\ ~ItemIncomplete(item)
        /\ IF ValidItemType(item.type)
           THEN /\ pc' = "prepare"
                /\ cur' = [ids |-> <<>>, printed |-> <<processing>>]
                /\ UNCHANGED <<item_idx, results, exit_code>>
           ELSE /\ pc' = AfterItem("ValueError")
                /\ exit_code' = IF AfterItem("ValueError") = "exit" THEN 1
                                ELSE exit_code
                /\ item_idx' = item_idx + 1
                /\ results' = Append(results,
                        Result(item, TRUE, "ValueError", <<>>,
                               <<processing>> \o MainPrints("ValueError", item)))
                /\ UNCHANGED cur
    /\ UNCHANGED <<csv, dry_run, token, row_idx, grouped_items, items, runs, posts,
                   encVars, decVars>>

\* one turn of "for i, price in enumerate(prices)": prepare_price_data runs
\* the subprocess; when it fails get_price_point_id calls sys.exit(1)
PreparePrice ==
    /\ pc = "prepare" /\ Len(cur.ids) < Len(items[item_idx + 1].prices)
    /\ LET item == items[item_idx + 1]
           price == item.prices[Len(cur.ids) + 1]
           got == get_price_point_id(item.id, price.territory, price.price)
       IN
        /\ runs' = Append(runs, [item |-> item_idx + 1,
                                 args |-> <<item.id, price.territory, price.price>>,
                                 ok |-> got.ok])
        /\ IF got.ok
           THEN /\ cur' = [cur EXCEPT !.ids = Append(@, got.id)]
                /\ UNCHANGED <<pc, item_idx, results, exit_code>>
           ELSE /\ pc' = AfterItem("exit")
                /\ exit_code' = 1
                /\ item_idx' = item_idx + 1
                /\ results' = Append(results,
                        Result(item, TRUE, "exit", <<>>,
                               cur.printed \o <<<<"Error getting price point ID">>,
                                                <<"Error output">>>>))
                /\ cur' = NoItem
    /\ UNCHANGED <<csv, dry_run, token, row_idx, grouped_items, items, posts,
                   encVars, decVars>>

\* the rest of update_price_schedule: the payload, then the dry run or the
\* request, which the server answers "ok" or "error"; then main's report
FinishUpdatePriceSchedule ==
    /\ pc = "prepare" /\ Len(cur.ids) = Len(items[item_idx + 1].prices)
    /\ \E resp \in {"ok", "error"} :
        LET item == items[item_idx + 1]
            payload == BuildPayload(ITEM_TYPES[item.type], item.id, item.prices,
                                    cur.ids)
            d == Deliver(token, item.type, item.id, payload, dry_run, resp)
        IN
            /\ posts' = posts \o [i \in 1..Len(d.posts) |->
                                    [item |-> item_idx + 1, request |-> d.posts[i]]]
            /\ results' = Append(results,
                    Result(item, TRUE, d.outcome, <<payload>>,
                           cur.printed \o d.printed \o MainPrints(d.outcome, item)))
            /\ pc' = AfterItem(d.outcome)
            /\ exit_code' = IF AfterItem(d.outcome) = "exit" THEN 1 ELSE exit_code
    /\ item_idx' = item_idx + 1
    /\ cur' = NoItem
    /\ UNCHANGED <<csv, dry_run, token, row_idx, grouped_items, items, runs,
                   encVars, decVars>>

\* the loop is over: main returns
EndMain ==
    /\ pc = "process" /\ item_idx = Len(items)
    /\ pc' = "done"
    /\ exit_code' = 0
    /\ UNCHANGED <<csv, dry_run, token, row_idx, grouped_items, items, item_idx,
                   cur, runs, posts, results, encVars, decVars>>

Next ==
    \/ ReadRow
    \/ EndRead
    \/ SkipItem
    \/ CallUpdatePriceSchedule
    \/ PreparePrice
    \/ FinishUpdatePriceSchedule
    \/ EndMain

Spec == Init /\ [][Next]_vars

(***************************************************************************)
(* Properties.                                                             *)
(***************************************************************************)
KeyS == <<115>>
KeyT == <<116>>
KeyP == <<112>>

\* A-Z a-z 0-9 '-' '_'
IsBase64UrlChar(c) ==
    \/ c >= 65 /\ c <= 90
    \/ c >= 97 /\ c <= 122
    \/ c >= 48 /\ c <= 57
    \/ c = HYPHEN
    \/ c = 95

\* C1: decoding the identifier of (s, t, p) -- padding re-added, base64url,
\* UTF-8, JSON -- gives back exactly s, t and p, for every triple, a field
\* holding a space, a quote, a backslash or a non-ASCII character included.
C1_RoundTrip ==
    enc_pc = "decoded" =>
        /\ recovered.ok
        /\ recovered.s = s /\ recovered.t = t /\ recovered.p = p

\* C2: base64url_decode raises for every input that holds a character
\* outside the base64url alphabet (padding aside): it never returns bytes.
C2_ForeignCharacterRaises ==
    (/\ dec_pc # "start"
     /\ \E i \in 1..Len(data) : ~IsBase64UrlChar(data[i]) /\ data[i] # EQUALS)
    => dec_pc = "raised"

\* C3: the text encode_json_to_base64 encodes is a JSON object whose keys
\* are exactly s, t, p in that order, its bytes hold no space, and those
\* bytes are what the identifier decodes to.
C3_JsonTextShape ==
    enc_pc \in {"encoded", "decoded"} =>
        LET obj == JsonLoads(json_string) IN
            /\ obj.ok
            /\ JsonKeys(obj) = <<KeyS, KeyT, KeyP>>
            /\ ~Contains(Utf8Encode(json_string), SPACE)
            /\ base64url_decode(encoded) =
                  [ok |-> TRUE, bytes |-> Utf8Encode(json_string)]

\* C3 happens: a triple with a space in s and a quote in t was encoded
C3_Witness ==
    enc_pc = "encoded" /\ Contains(s, SPACE) /\ Contains(t, QUOTE)

\* C4: the identifier holds only characters of the base64url alphabet, so
\* no '+', '/' or '=', and its length is never 1 modulo 4.
C4_UrlSafeIdentifier ==
    enc_pc \in {"encoded", "decoded"} =>
        /\ \A i \in 1..Len(encoded) :
              IsBase64UrlChar(encoded[i]) /\ encoded[i] \notin {43, 47, EQUALS}
        /\ Len(encoded) % 4 # 1

\* C4 happens: an identifier whose padding was stripped and which holds '_'
C4_Witness ==
    /\ enc_pc = "encoded"
    /\ Len(Utf8Encode(json_string)) % 3 # 0
    /\ Contains(encoded, 95)

\* C5: for accepted arguments main exits with status 0 having written two
\* lines: the decoded JSON text itself, then the identifier.
C5_StdoutJsonThenIdentifier ==
    (enc_pc = "exited" /\ ParseArgsOk(s, t, p)) =>
        /\ returncode = 0
        /\ stdout = Utf8Decode(base64url_decode(encoded).bytes).text
                    \o <<NEWLINE>> \o encoded \o <<NEWLINE>>

\* the items update_price_schedule was called for with a known type
CalledValid(k) == results[k].called /\ ValidItemType(results[k].item.type)

\* some subprocess of item k failed
SubprocessFailed(k) == \E i \in 1..Len(runs) : runs[i].item = k /\ ~runs[i].ok

ProcessingLine(item) ==
    <<"Processing", item.type, item.id, item.memo, Len(item.prices)>>

C7_UnknownTypeRaisesFirst ==
    /\ \A i \in 1..Len(runs) : ValidItemType(items[runs[i].item].type)
    /\ \A i \in 1..Len(posts) : ValidItemType(items[posts[i].item].type)
    /\ pc = "prepare" => ValidItemType(items[item_idx + 1].type)
    /\ \A k \in 1..Len(results) :
          (results[k].called /\ ~ValidItemType(results[k].item.type)) =>
              /\ results[k].outcome = "ValueError"
              /\ results[k].payload = <<>>
              /\ results[k].printed =
                    <<ProcessingLine(results[k].item),
                      <<"Error processing", results[k].item.memo>>>>
              /\ k = Len(results) => (pc # "exit" /\ item_idx = k)
    /\ pc = "done" => Len(results) = Len(items)

\* C7 happens: an item of unknown type was followed by an item for which
\* the request was made
C7_Witness ==
    /\ pc = "done" /\ Len(results) = 2
    /\ results[1].outcome = "ValueError"
    /\ results[2].outcome \in {"True", "False"}
    /\ posts # <<>>

\* the price point id the payload carries for its i-th price
PayloadPricePointId(item, payload, i) ==
    payload.included[i].relationships[ITEM_TYPES[item.type].price_point_type].data.id

\* C8: what get_price_point_id returns when the subprocess succeeds is
\* encode_json_to_base64(app_id, territory, price_point), and that value is
\* the price point id of the payload.  (results only grows at its end, so
\* the payload is checked when its record is the last.)
C8_PricePointIdIsIdentifier ==
    /\ pc = "prepare" =>
          \A i \in 1..Len(cur.ids) :
              LET item == items[item_idx + 1] IN
              cur.ids[i] = encode_json_to_base64(item.id, item.prices[i].territory,
                                                 item.prices[i].price)
    /\ (results # <<>> /\ results[Len(results)].payload # <<>>) =>
          LET r == results[Len(results)] IN
          \A i \in 1..Len(r.item.prices) :
              PayloadPricePointId(r.item, r.payload[1], i)
              = encode_json_to_base64(r.item.id, r.item.prices[i].territory,
                                      r.item.prices[i].price)

\* C8 happens: a payload was built for two prices, one with a quote, a
\* newline, a space and a non-ASCII character in its fields
C8_Witness ==
    /\ results # <<>> /\ results[Len(results)].payload # <<>>
    /\ LET prices == results[Len(results)].item.prices IN
          /\ Len(prices) = 2
          /\ Contains(prices[2].price, NEWLINE) /\ Contains(prices[2].price, QUOTE)
          /\ Contains(prices[2].territory, 233)
          /\ Contains(prices[2].territory, SPACE)

\* the rows read so far that are not skipped
Contributing ==
    SelectSeq(SubSeq(csv, 1, row_idx),
              LAMBDA row : Strip(row.input) # <<>> /\ row.id # <<>>)

\* the positions in Contributing where an id appears for the first time
FirstAppearances ==
    SelectSeq([i \in 1..Len(Contributing) |-> i],
              LAMBDA i : \A j \in 1..(i - 1) : Contributing[j].id # Contributing[i].id)

\* the prices of the contributing rows with this id, in row order
PricesOfId(id) ==
    LET own == SelectSeq(Contributing, LAMBDA row : row.id = id)
    IN [i \in 1..Len(own) |->
          [territory |-> own[i].territory,
           price |-> own[i].price_point_id,
           startDate |-> IF own[i].start = "null" THEN <<>> ELSE <<own[i].start>>,
           endDate |-> IF own[i].end = "null" THEN <<>> ELSE <<own[i].end>>]]

C10_PayloadShape ==
    \A k \in 1..Len(results) : results[k].payload # <<>> =>
        LET item == results[k].item
            payload == results[k].payload[1]
            manual == payload.data.relationships.manualPrices.data
            included == payload.included
            n == Len(item.prices)
        IN /\ n > 0
           /\ Len(manual) = n /\ Len(included) = n
           /\ \A i \in 1..n :
                 /\ manual[i].id = "${price-" \o ToString(i - 1) \o "}"
                 /\ included[i].id = manual[i].id
                 /\ manual[i].type = ITEM_TYPES[item.type].prices_type
                 /\ included[i].type = manual[i].type
                 /\ ("attributes" \in DOMAIN included[i])
                    <=> (HasDate(item.prices[i].startDate)
                         \/ HasDate(item.prices[i].endDate))
           /\ \A i, j \in 1..n : i # j => manual[i].id # manual[j].id
           /\ payload.data.relationships.baseTerritory.data.id
              = item.prices[1].territory

\* C10 happens: a payload of three prices whose first two territories differ
C10_Witness ==
    \E k \in 1..Len(results) :
        /\ results[k].payload # <<>>
        /\ Len(results[k].item.prices) = 3
        /\ results[k].item.prices[1].territory # results[k].item.prices[2].territory

====
